---------------------------- MODULE Spec2Model ----------------------------
(***************************************************************************)
(* A model of the Pinterest search scraper: the runner's job loop          *)
(* (src/src/runner.py), the scraper's search pipeline                      *)
(* (src/src/extractors/pinterest_parser.py) and the timestamp helper       *)
(* (src/src/extractors/utils_time.py).                                     *)
(*                                                                         *)
(* Python values are tagged records.  A Python str is a sequence of        *)
(* one-character strings, so that strip(), lower(), slicing and pattern    *)
(* search are computed on characters.  Mapping keys are TLA+ strings.  A   *)
(* dict keeps its items in insertion order, as Python does.                *)
(***************************************************************************)
EXTENDS Integers, Sequences, FiniteSets, TLC

VARIABLES
    jobs,         \* runner: the job list built by build_jobs (each job's limit)
    site,         \* environment: which documents the remote site may serve
    max_retries,  \* PinterestScraperConfig.max_retries
    idx,          \* runner: 1-based index of the job of the for loop
    pc,           \* control position
    attempt,      \* _request_with_retries: the loop variable
    log,          \* _request_with_retries: outcome of every GET of this call
    sleeps,       \* _request_with_retries: number of time.sleep calls of this call
    resp,         \* search: resp
    html,         \* search: html
    pins_raw,     \* search: pins_raw
    normalized,   \* search: normalized
    k,            \* search: position of the for loop over pins_raw
    calls,        \* search: how often each stage has run for this job
    result,       \* what search returned to the runner
    raised,       \* whether search ended by raising instead of returning
    all_results,  \* runner: all_results
    jobLog,       \* runner: per finished job, what search did
    exported,     \* runner: the arguments of every exporter.export call
    arg,          \* argument of a helper applied on its own
    out           \* its return value

vars == <<jobs, site, max_retries, idx, pc, attempt, log, sleeps, resp, html,
          pins_raw, normalized, k, calls, result, raised, all_results, jobLog,
          exported, arg, out>>

---------------------------------------------------------------------------
(* Python values *)

PyNone == [t |-> "none"]

PyNaN == [t |-> "nan"]

PyNum(n) == [t |-> "num", n |-> n]

PyStr(s) == [t |-> "str", s |-> s]

PyDict(items) == [t |-> "dict", items |-> items]

PyList(elems) == [t |-> "list", elems |-> elems]

Item(key, v) == [k |-> key, v |-> v]

IsDict(v) == v.t = "dict"

IsNumber(v) == v.t \in {"num", "nan"}

IsStr(v) == v.t = "str"

\* key in d
HasKey(d, key) == \E i \in 1..Len(d.items) : d.items[i].k = key

\* d.get(key): None when the key is absent
Get(d, key) ==
    IF HasKey(d, key)
    THEN d.items[CHOOSE i \in 1..Len(d.items) : d.items[i].k = key].v
    ELSE PyNone

\* d[key] of a key that is present
At(d, key) == d.items[CHOOSE i \in 1..Len(d.items) : d.items[i].k = key].v

\* Python truth value
Truthy(v) ==
    CASE v.t = "none" -> FALSE
      [] v.t = "nan"  -> TRUE
      [] v.t = "num"  -> v.n # 0
      [] v.t = "str"  -> v.s # <<>>
      [] v.t = "dict" -> v.items # <<>>
      [] v.t = "list" -> v.elems # <<>>

\* a wrong 'or': only None gives way to the right operand
PyOrNotNone(a, b) == IF a # PyNone THEN a ELSE b

\* a or b
PyOr(a, b) == IF Truthy(a) THEN a ELSE b

Min(a, b) == IF a <= b THEN a ELSE b

\* s[:n] for n >= 0
Take(s, n) == SubSeq(s, 1, Min(n, Len(s)))

\* s[-n:] for n > 0
LastN(s, n) == IF Len(s) <= n THEN s ELSE SubSeq(s, Len(s) - n + 1, Len(s))

---------------------------------------------------------------------------
(* Characters and strings *)

DigitChars == <<"0", "1", "2", "3", "4", "5", "6", "7", "8", "9">>

IsDigit(c) == \E i \in 1..10 : DigitChars[i] = c

DigitOf(c) == (CHOOSE i \in 1..10 : DigitChars[i] = c) - 1

IsSpace(c) == c \in {" ", "\t", "\n"}

UpperChars == <<"A", "B", "C", "D", "E", "F", "G", "H", "I", "J", "K", "L", "M",
                "N", "O", "P", "Q", "R", "S", "T", "U", "V", "W", "X", "Y", "Z">>

LowerChars == <<"a", "b", "c", "d", "e", "f", "g", "h", "i", "j", "k", "l", "m",
                "n", "o", "p", "q", "r", "s", "t", "u", "v", "w", "x", "y", "z">>

LowerChar(c) ==
    IF \E i \in 1..26 : UpperChars[i] = c
    THEN LowerChars[CHOOSE i \in 1..26 : UpperChars[i] = c]
    ELSE c

\* s.lower()
Lower(s) == [i \in 1..Len(s) |-> LowerChar(s[i])]

\* sub in s
Contains(s, sub) ==
    \E i \in 1..(Len(s) - Len(sub) + 1) : SubSeq(s, i, i + Len(sub) - 1) = sub

RECURSIVE LStrip(_)
LStrip(s) == IF s # <<>> /\ IsSpace(Head(s)) THEN LStrip(Tail(s)) ELSE s

RECURSIVE RStrip(_)
RStrip(s) ==
    IF s # <<>> /\ IsSpace(s[Len(s)]) THEN RStrip(SubSeq(s, 1, Len(s) - 1)) ELSE s

\* s.strip()
Strip(s) == RStrip(LStrip(s))

RECURSIVE NatStr(_)
NatStr(n) ==
    IF n < 10 THEN <<DigitChars[n + 1]>>
    ELSE NatStr(n \div 10) \o <<DigitChars[(n % 10) + 1]>>

\* str(n) of an int
IntStr(n) == IF n < 0 THEN <<"-">> \o NatStr(-n) ELSE NatStr(n)

\* the decimal number written by a run of digits
RECURSIVE DigitsValue(_)
DigitsValue(s) ==
    IF s = <<>> THEN 0
    ELSE 10 * DigitsValue(SubSeq(s, 1, Len(s) - 1)) + DigitOf(s[Len(s)])

\* n written with at least w digits
RECURSIVE ZeroPad(_, _)
ZeroPad(s, w) == IF Len(s) >= w THEN s ELSE ZeroPad(<<"0">> \o s, w)

\* str(v) of a scalar
PyStrOf(v) ==
    CASE v.t = "none" -> <<"N", "o", "n", "e">>
      [] v.t = "nan"  -> <<"n", "a", "n">>
      [] v.t = "num"  -> IntStr(v.n)
      [] v.t = "str"  -> v.s

---------------------------------------------------------------------------
(* utils_time.py *)

\* a datetime in UTC, kept to its calendar date (all that strftime("%Y-%m-%d") reads)
DateTime(y, m, d) == [t |-> "datetime", y |-> y, m |-> m, d |-> d]

\* the exception a library call raised
Raises == [t |-> "error"]

IsLeap(y) == (y % 4 = 0 /\ y % 100 # 0) \/ y % 400 = 0

DaysInMonth(y, m) ==
    IF m = 2 THEN (IF IsLeap(y) THEN 29 ELSE 28)
    ELSE IF m \in {4, 6, 9, 11} THEN 30 ELSE 31

\* the proleptic Gregorian date of a day number counted from 1970-01-01
CivilFromDays(days) ==
    LET z   == days + 719468
        era == z \div 146097
        doe == z - era * 146097
        yoe == (doe - doe \div 1460 + doe \div 36524 - doe \div 146096) \div 365
        doy == doe - (365 * yoe + yoe \div 4 - yoe \div 100)
        mp  == (5 * doy + 2) \div 153
        d   == doy - (153 * mp + 2) \div 5 + 1
        m   == IF mp < 10 THEN mp + 3 ELSE mp - 9
        y   == yoe + era * 400 + (IF m <= 2 THEN 1 ELSE 0)
    IN  DateTime(y, m, d)

\* datetime.fromtimestamp(float(value), tz=timezone.utc); a NaN raises ValueError
FromTimestamp(value) ==
    IF value.t = "nan" THEN Raises ELSE CivilFromDays(value.n \div 86400)

\* whether text is a calendar date written YYYY-MM-DD
IsIsoDate(text) ==
    /\ Len(text) = 10
    /\ \A i \in {1, 2, 3, 4, 6, 7, 9, 10} : IsDigit(text[i])
    /\ text[5] = "-" /\ text[8] = "-"
    /\ LET y == DigitsValue(SubSeq(text, 1, 4))
           m == DigitsValue(SubSeq(text, 6, 7))
           d == DigitsValue(SubSeq(text, 9, 10))
       IN  y >= 1 /\ m \in 1..12 /\ d >= 1 /\ d <= DaysInMonth(y, m)

\* dateutil's parser.parse, on the texts of the model: a YYYY-MM-DD date parses
\* to that date (with no timezone, so UTC is assumed), any other text raises
DateutilParse(text) ==
    IF IsIsoDate(text)
    THEN DateTime(DigitsValue(SubSeq(text, 1, 4)), DigitsValue(SubSeq(text, 6, 7)),
                  DigitsValue(SubSeq(text, 9, 10)))
    ELSE Raises

\* dt.strftime("%Y-%m-%d")
Strftime(dt) ==
    ZeroPad(NatStr(dt.y), 4) \o <<"-">> \o ZeroPad(NatStr(dt.m), 2) \o <<"-">>
        \o ZeroPad(NatStr(dt.d), 2)

\* _safe_to_datetime
SafeToDatetime(value) ==
    IF value.t = "none" THEN PyNone
    ELSE IF IsNumber(value)
    THEN LET dt == FromTimestamp(value) IN IF dt = Raises THEN PyNone ELSE dt
    ELSE IF IsStr(value)
    THEN LET text == Strip(value.s)
         IN  IF text = <<>> THEN PyNone
             ELSE LET dt == DateutilParse(text) IN IF dt = Raises THEN PyNone ELSE dt
    ELSE PyNone

\* a wrong parse_pinterest_timestamp: a failed conversion reports no raw value
ParseTimestampDropsRaw(raw) ==
    LET dt == SafeToDatetime(raw)
    IN  IF dt = PyNone THEN [formatted |-> PyNone, initial |-> PyNone]
        ELSE [formatted |-> PyStr(Strftime(dt)), initial |-> raw]

\* parse_pinterest_timestamp
ParsePinterestTimestamp(raw) ==
    LET dt == SafeToDatetime(raw)
    IN  IF dt = PyNone THEN [formatted |-> PyNone, initial |-> raw]
        ELSE [formatted |-> PyStr(Strftime(dt)), initial |-> raw]

\* raw timestamps the helper is applied to: null, epoch seconds, NaN, texts with
\* and without surrounding blanks, and values of other types
EpochDays == {-24855, -366, -1, 0, 1, 58, 59, 364, 365, 789, 11015, 11016,
              11017, 19722, 19723, 24854}

TimeTexts ==
    { <<"2", "0", "2", "1", "-", "0", "3", "-", "0", "4">>,
      <<"2", "0", "2", "0", "-", "0", "2", "-", "2", "9">>,
      <<"2", "0", "2", "1", "-", "0", "2", "-", "2", "9">>,
      <<"1", "9", "9", "9", "-", "1", "2", "-", "3", "1">>,
      <<"s", "o", "o", "n">>,
      <<"x", "1">>,
      <<>> }

Blanks == {<<>>, <<" ">>, <<"\n", " ">>}

TimeInputs ==
    {PyNone, PyNaN, PyList(<<>>), PyDict(<<>>), PyDict(<<Item("t", PyNum(0))>>)}
    \cup {PyNum(d * 86400 + s) : d \in EpochDays, s \in {0, 1, 86399}}
    \cup {PyStr(l \o c \o r) : l \in Blanks, c \in TimeTexts, r \in Blanks}

---------------------------------------------------------------------------
(* The timestamp helper applied on its own *)

IdleScraper ==
    /\ jobs = <<>> /\ site = "none" /\ max_retries = 1 /\ idx = 1
    /\ attempt = 1 /\ log = <<>> /\ sleeps = 0
    /\ resp = PyNone /\ html = <<>> /\ pins_raw = <<>> /\ normalized = <<>>
    /\ k = 1 /\ calls = [locate |-> 0, find |-> 0, normalize |-> 0, fallback |-> 0]
    /\ result = <<>> /\ raised = FALSE
    /\ all_results = <<>> /\ jobLog = <<>> /\ exported = <<>>

scraperVars ==
    <<jobs, site, max_retries, idx, attempt, log, sleeps, resp, html, pins_raw,
      normalized, k, calls, result, raised, all_results, jobLog, exported>>

InitTime ==
    /\ IdleScraper
    /\ pc = "time_call"
    /\ arg \in TimeInputs
    /\ out = PyNone

ApplyTimestamp ==
    /\ pc = "time_call"
    /\ out' = ParsePinterestTimestamp(arg)
    /\ pc' = "time_done"
    /\ UNCHANGED <<scraperVars, arg>>

NextTime == ApplyTimestamp

SpecTime == InitTime /\ [][NextTime]_vars

\* the raw values whose conversion or parsing fails: null, a NaN, a text that is
\* blank or no calendar date once trimmed, a value of another type
ConversionFails(raw) ==
    \/ raw.t \in {"none", "nan", "list", "dict"}
    \/ raw.t = "str" /\ ~IsIsoDate(Strip(raw.s))

\* C9: the timestamp normalizer returns its raw input unchanged as initial, for
\* every raw input, and formatted is null whenever the conversion fails
C9_InitialIsRaw ==
    pc = "time_done" =>
        /\ out.initial = arg
        /\ ConversionFails(arg) => out.formatted = PyNone
        /\ ~ConversionFails(arg) => out.formatted.t = "str"

\* C9 witness: a malformed text with surrounding blanks came back unmodified
C9_Witness ==
    /\ pc = "time_done"
    /\ arg.t = "str" /\ Strip(arg.s) # arg.s /\ Strip(arg.s) # <<>>
    /\ ConversionFails(arg)
    /\ out = [formatted |-> PyNone, initial |-> arg]

\* the dates of the epoch seconds and texts of the model, as the calendar has them
KnownDates ==
    pc = "time_done" =>
        /\ arg = PyNum(0) => out.formatted.s = <<"1", "9", "7", "0", "-", "0", "1", "-", "0", "1">>
        /\ arg = PyNum(-1) => out.formatted.s = <<"1", "9", "6", "9", "-", "1", "2", "-", "3", "1">>
        /\ arg = PyNum(11016 * 86400 + 86399) =>
               out.formatted.s = <<"2", "0", "0", "0", "-", "0", "2", "-", "2", "9">>
        /\ arg = PyNum(19723 * 86400) =>
               out.formatted.s = <<"2", "0", "2", "4", "-", "0", "1", "-", "0", "1">>
        /\ arg = PyNum(-24855 * 86400) =>
               out.formatted.s = <<"1", "9", "0", "1", "-", "1", "2", "-", "1", "4">>
        /\ (arg.t = "str" /\ ~ConversionFails(arg)) => out.formatted.s = Strip(arg.s)

---------------------------------------------------------------------------
(* pinterest_parser.py: the recursive record finder *)

\* the values a dict or list holds, in iteration order
Children(obj) ==
    IF obj.t = "dict" THEN [i \in 1..Len(obj.items) |-> obj.items[i].v]
    ELSE IF obj.t = "list" THEN obj.elems
    ELSE <<>>

\* the object reached from obj by a path of child positions; a yielded dict is an
\* object of the tree, and its path is what tells it from an equal dict elsewhere
RECURSIVE NodeAt(_, _)
NodeAt(obj, path) ==
    IF path = <<>> THEN obj ELSE NodeAt(Children(obj)[Head(path)], Tail(path))

\* a wrong _iter_dicts: an accepted record is yielded but its inside is not searched
RECURSIVE IterPathsNoNesting(_, _)
RECURSIVE IterChildrenNoNesting(_, _, _)
IterPathsNoNesting(obj, path) ==
    IF obj.t = "dict"
    THEN IF \E i \in 1..Len(obj.items) : obj.items[i].k = "id"
         THEN <<path>>
         ELSE <<path>> \o IterChildrenNoNesting(Children(obj), path, 1)
    ELSE IF obj.t = "list" THEN IterChildrenNoNesting(obj.elems, path, 1)
    ELSE <<>>

IterChildrenNoNesting(vs, path, i) ==
    IF i > Len(vs) THEN <<>>
    ELSE IterPathsNoNesting(vs[i], Append(path, i))
             \o IterChildrenNoNesting(vs, path, i + 1)

\* _iter_dicts: the paths of the dicts it yields, in the order it yields them
RECURSIVE IterPaths(_, _)
RECURSIVE IterChildren(_, _, _)
IterPaths(obj, path) ==
    IF obj.t = "dict" THEN <<path>> \o IterChildren(Children(obj), path, 1)
    ELSE IF obj.t = "list" THEN IterChildren(obj.elems, path, 1)
    ELSE <<>>

\* the for loops of _iter_dicts over obj.values() and over a list
IterChildren(vs, path, i) ==
    IF i > Len(vs) THEN <<>>
    ELSE IterPaths(vs[i], Append(path, i)) \o IterChildren(vs, path, i + 1)

\* the heuristic of _find_pin_objects
LooksLikePin(node) ==
    HasKey(node, "id")
        /\ (HasKey(node, "images") \/ HasKey(node, "grid_title") \/ HasKey(node, "title"))

\* _find_pin_objects: where the accepted nodes are (blob number and path)
RECURSIVE FindPinRefs(_, _)
FindPinRefs(blobs, b) ==
    IF b > Len(blobs) THEN <<>>
    ELSE LET paths == IterPaths(blobs[b], <<>>)
             hits  == SelectSeq(paths, LAMBDA p : LooksLikePin(NodeAt(blobs[b], p)))
         IN  [i \in 1..Len(hits) |-> [blob |-> b, path |-> hits[i]]]
                 \o FindPinRefs(blobs, b + 1)

\* _find_pin_objects
FindPinObjects(blobs) ==
    LET refs == FindPinRefs(blobs, 1)
    IN  [i \in 1..Len(refs) |-> NodeAt(blobs[refs[i].blob], refs[i].path)]

---------------------------------------------------------------------------
(* Trees for the record finder applied on its own *)

\* the most dicts and lists a tree holds
MaxNodes == 3

KeyOrder == <<"id", "images", "grid_title", "title">>

\* the scalar fields a dict of a tree has besides its children
ScalarKeySets ==
    { {}, {"id"}, {"title"}, {"id", "title"}, {"id", "grid_title"}, {"id", "images"} }

ChildKeys == <<"a", "b", "c", "d", "e", "f", "g", "h">>

ScalarOf(key) == IF key = "id" THEN PyNum(7) ELSE PyStr(<<"T">>)

\* a dict with the scalar fields keys, then one field per child
MkDict(keys, kids) ==
    LET own == SelectSeq(KeyOrder, LAMBDA key : key \in keys)
    IN  PyDict([i \in 1..Len(own) |-> Item(own[i], ScalarOf(own[i]))]
                   \o [i \in 1..Len(kids) |-> Item(ChildKeys[i], kids[i])])

RECURSIVE Composites(_)
RECURSIVE Forests(_)
\* the dicts and lists made of exactly n dicts and lists
Composites(n) ==
    IF n = 0 THEN {}
    ELSE {MkDict(keys, f) : keys \in ScalarKeySets, f \in Forests(n - 1)}
             \cup {PyList(f) : f \in Forests(n - 1)}

\* the sequences of dicts and lists made of exactly n dicts and lists
Forests(n) ==
    IF n = 0 THEN {<<>>}
    ELSE UNION { {<<c>> \o f : c \in Composites(j), f \in Forests(n - j)} : j \in 1..n }

\* deeper trees: a subtree that ends before its later sibling starts, records in
\* lists in records, a record under a chain of plain dicts and lists
DeepBlobs ==
    LET pin   == MkDict({"id", "title"}, <<>>)
        grid  == MkDict({"id", "grid_title"}, <<>>)
        plain == MkDict({}, <<>>)
    IN  { MkDict({}, <<MkDict({"id"}, <<pin>>), grid>>),
          MkDict({"id", "images"}, <<PyList(<<pin, plain>>), MkDict({"title"}, <<grid>>)>>),
          MkDict({}, <<PyList(<<PyList(<<MkDict({}, <<pin>>)>>)>>), pin>>),
          MkDict({"id", "title"}, <<MkDict({"id", "title"}, <<pin, grid>>), PyList(<<>>), pin>>) }

\* the blobs: json.loads of a text that starts with { gives a dict
FinderBlobs ==
    {t \in UNION {Composites(n) : n \in 1..MaxNodes} : t.t = "dict"} \cup DeepBlobs

InitFinder ==
    /\ IdleScraper
    /\ pc = "finder_call"
    /\ arg \in FinderBlobs
    /\ out = PyNone

ApplyFinder ==
    /\ pc = "finder_call"
    /\ out' = [visited |-> IterPaths(arg, <<>>),
               refs    |-> FindPinRefs(<<arg>>, 1),
               pins    |-> FindPinObjects(<<arg>>)]
    /\ pc' = "finder_done"
    /\ UNCHANGED <<scraperVars, arg>>

NextFinder == ApplyFinder

SpecFinder == InitFinder /\ [][NextFinder]_vars

\* every path of child positions that leads to an object of the tree
RECURSIVE AllPaths(_)
AllPaths(obj) ==
    {<<>>} \cup UNION { {<<i>> \o p : p \in AllPaths(Children(obj)[i])} :
                         i \in 1..Len(Children(obj)) }

DictPaths(obj) == {p \in AllPaths(obj) : NodeAt(obj, p).t = "dict"}

KeysOf(node) == {node.items[i].k : i \in 1..Len(node.items)}

\* p comes before q in depth-first pre-order: p is an ancestor of q, or p lies in
\* an earlier subtree where the two paths part
PreOrderBefore(p, q) ==
    \/ Len(p) < Len(q) /\ SubSeq(q, 1, Len(p)) = p
    \/ \E i \in 1..Min(Len(p), Len(q)) :
           /\ SubSeq(p, 1, i - 1) = SubSeq(q, 1, i - 1)
           /\ p[i] < q[i]

\* the paths of the tree's record-like dicts
RecordPaths(obj) ==
    {p \in DictPaths(obj) :
        /\ "id" \in KeysOf(NodeAt(obj, p))
        /\ KeysOf(NodeAt(obj, p)) \cap {"images", "grid_title", "title"} # {}}

\* C10: the record finder visits every mapping node of a blob exactly once, in
\* depth-first pre-order, and returns exactly the nodes having id and one of
\* images, grid_title, title, whether or not an ancestor was returned too
C10_FinderVisitsAndReturns ==
    pc = "finder_done" =>
        /\ {out.visited[i] : i \in 1..Len(out.visited)} = DictPaths(arg)
        /\ \A i, j \in 1..Len(out.visited) :
               i < j => PreOrderBefore(out.visited[i], out.visited[j])
        /\ {out.refs[i].path : i \in 1..Len(out.refs)} = RecordPaths(arg)
        /\ \A i, j \in 1..Len(out.refs) :
               i < j => PreOrderBefore(out.refs[i].path, out.refs[j].path)
        /\ Len(out.pins) = Len(out.refs)
        /\ \A i \in 1..Len(out.pins) : out.pins[i] = NodeAt(arg, out.refs[i].path)

\* C10 witness: a tree whose root is no record and holds a record that itself
\* holds a record; both records are returned and the root is not
C10_Witness ==
    /\ pc = "finder_done"
    /\ <<>> \notin RecordPaths(arg)
    /\ \E p, q \in RecordPaths(arg) : Len(p) < Len(q) /\ SubSeq(q, 1, Len(p)) = p
    /\ Len(out.pins) = Cardinality(RecordPaths(arg))

---------------------------------------------------------------------------
(* pinterest_parser.py: the structured-data locator *)

Markers == {"__PWS_DATA__", "initialReduxState"}

\* the text of a script whose JSON part cannot be parsed
Malformed == [t |-> "malformed"]

\* A script element, by what its text is:
\*   kind "empty":  no text;
\*   kind "json":   a JSON object and nothing else but blanks around it;
\*   kind "assign": code around one JSON object, as in  window.X = {...};  where
\*                  X is __PWS_DATA__ when marker holds; the code has no braces.
\* body is what json.loads makes of the JSON part, or Malformed.
Script(kind, marker, body) == [el |-> "script", kind |-> kind, marker |-> marker, body |-> body]

\* whether a parsed tree has a marker among its keys, at any depth (the strings
\* of the model's documents hold none)
MentionsMarker(tree) ==
    \E p \in DictPaths(tree) : KeysOf(NodeAt(tree, p)) \cap Markers # {}

\* "__PWS_DATA__" in text or "initialReduxState" in text
HasMarker(script) ==
    \/ script.kind = "assign" /\ script.marker
    \/ script.body # Malformed /\ MentionsMarker(script.body)

\* text.strip().startswith("{") and text.strip().endswith("}")
LooksLikePureJson(script) == script.kind = "json"

\* one pass of the loop of _extract_json_blobs_from_html: the blobs a script adds
BlobsOfScript(script) ==
    IF script.kind = "empty" THEN <<>>
    ELSE IF HasMarker(script)
    THEN IF script.body = Malformed THEN <<>>
         ELSE <<script.body>>
                  \o (IF LooksLikePureJson(script) THEN <<script.body>> ELSE <<>>)
    ELSE IF LooksLikePureJson(script) /\ script.body # Malformed THEN <<script.body>>
    ELSE <<>>

\* soup.find_all(tag): the elements of that tag, in document order
FindAll(page, tag) == SelectSeq(page, LAMBDA e : e.el = tag)

RECURSIVE ConcatAll(_)
ConcatAll(seqs) == IF seqs = <<>> THEN <<>> ELSE Head(seqs) \o ConcatAll(Tail(seqs))

\* _extract_json_blobs_from_html
ExtractJsonBlobs(page) ==
    LET scripts == FindAll(page, "script")
    IN  ConcatAll([i \in 1..Len(scripts) |-> BlobsOfScript(scripts[i])])

---------------------------------------------------------------------------
(* pinterest_parser.py: the markup fallback extractor *)

\* A div element, by what the extractor reads of it: its data-test-id and
\* data-pin-id attributes (PyNone when absent) and its first descendant img
\* (PyNone when it has none), whose src, data-src and alt are PyNone when absent.
Div(testid, pinid, img) == [el |-> "div", testid |-> testid, pinid |-> pinid, img |-> img]

Img(src, datasrc, alt) == [src |-> src, datasrc |-> datasrc, alt |-> alt]

\* the characters image_url[-32:] keeps
IdTailLen == 32

\* re.search(r"/(\d+)/", url): the group of the leftmost match, or PyNone
SearchDigitSegment(url) ==
    LET Matches(i, j) ==
            /\ url[i] = "/" /\ url[j] = "/" /\ j > i + 1
            /\ \A n \in (i + 1)..(j - 1) : IsDigit(url[n])
        starts == {i \in 1..Len(url) : \E j \in 1..Len(url) : Matches(i, j)}
    IN  IF starts = {} THEN PyNone
        ELSE LET i == CHOOSE x \in starts : \A y \in starts : x <= y
                 j == CHOOSE x \in 1..Len(url) : Matches(i, x)
             IN  PyStr(SubSeq(url, i + 1, j - 1))

PinType == <<"p", "i", "n">>

NoPinner ==
    [id |-> PyNone, username |-> PyNone, fullName |-> PyNone, avatarURL |-> PyNone,
     followers |-> PyNone]

\* whether the loop of _fallback_parse_from_html makes a record of the div
IsPinDiv(div) ==
    /\ Contains(Lower(PyOr(div.testid, PyStr(<<>>)).s), PinType)
    /\ div.img # PyNone

\* the record _fallback_parse_from_html makes of a div
FallbackRecord(div) ==
    LET image_url == PyOr(PyOr(div.img.src, div.img.datasrc), PyStr(<<>>))
        alt       == PyOr(div.img.alt, PyStr(<<>>))
        attr      == PyOr(div.pinid, PyStr(<<>>))
        m         == SearchDigitSegment(image_url.s)
        pin_id    == IF Truthy(attr) THEN attr
                     ELSE IF m # PyNone THEN m
                     ELSE PyStr(LastN(image_url.s, IdTailLen))
    IN  [id       |-> PyStr(PyStrOf(pin_id)),
         title    |-> alt,
         pinner   |-> NoPinner,
         date     |-> ParsePinterestTimestamp(PyNone),
         type     |-> PyStr(PinType),
         imageURL |-> image_url]

\* _fallback_parse_from_html
FallbackParse(page) ==
    LET hits == SelectSeq(FindAll(page, "div"), IsPinDiv)
    IN  [i \in 1..Len(hits) |-> FallbackRecord(hits[i])]

---------------------------------------------------------------------------
(* pinterest_parser.py: the record normalizer *)

\* _extract_primary_image_url
ExtractPrimaryImageUrl(pin_obj) ==
    LET images == Get(pin_obj, "images")
    IN  IF ~IsDict(images) THEN PyNone
        ELSE IF HasKey(images, "orig") /\ IsDict(At(images, "orig"))
        THEN Get(At(images, "orig"), "url")
        ELSE LET sizes == {i \in 1..Len(images.items) :
                              IsDict(images.items[i].v) /\ HasKey(images.items[i].v, "url")}
             IN  IF sizes = {} THEN PyNone
                 ELSE At(images.items[CHOOSE i \in sizes : \A j \in sizes : i <= j].v, "url")

\* a wrong _normalize_pin: the image field is written imageUrl
NormalizePinMisnamed(pin_obj) ==
    [id       |-> PyStr(PyStrOf(Get(pin_obj, "id"))),
     title    |-> PyOr(PyOr(PyOr(Get(pin_obj, "grid_title"), Get(pin_obj, "title")),
                            Get(pin_obj, "description")), PyStr(<<>>)),
     pinner   |-> NoPinner,
     date     |-> ParsePinterestTimestamp(PyNone),
     type     |-> PyOr(Get(pin_obj, "type"), PyStr(PinType)),
     imageUrl |-> PyOr(ExtractPrimaryImageUrl(pin_obj), PyStr(<<>>))]

\* _normalize_pin
NormalizePin(pin_obj) ==
    LET owner      == PyOr(PyOr(Get(pin_obj, "pinner"), Get(pin_obj, "owner")), PyDict(<<>>))
        pinner     == IF IsDict(owner) THEN owner ELSE PyDict(<<>>)
        avatar_url == IF HasKey(pinner, "image_small_url") THEN Get(pinner, "image_small_url")
                      ELSE IF HasKey(pinner, "image_medium_url")
                      THEN Get(pinner, "image_medium_url")
                      ELSE IF HasKey(pinner, "image_xlarge_url")
                      THEN Get(pinner, "image_xlarge_url")
                      ELSE PyNone
        created_at == PyOr(PyOr(Get(pin_obj, "created_at"),
                                Get(pin_obj, "created_at_timestamp")),
                           Get(pin_obj, "createdAt"))
    IN  [id       |-> PyStr(PyStrOf(Get(pin_obj, "id"))),
         title    |-> PyOr(PyOr(PyOr(Get(pin_obj, "grid_title"), Get(pin_obj, "title")),
                                Get(pin_obj, "description")), PyStr(<<>>)),
         pinner   |-> [id        |-> PyOr(Get(pinner, "id"), Get(pinner, "user_id")),
                       username  |-> PyOr(Get(pinner, "username"), Get(pinner, "urlname")),
                       fullName  |-> PyOr(Get(pinner, "full_name"), Get(pinner, "fullName")),
                       avatarURL |-> avatar_url,
                       followers |-> PyOr(Get(pinner, "follower_count"),
                                          Get(pinner, "followers"))],
         date     |-> ParsePinterestTimestamp(created_at),
         type     |-> PyOr(Get(pin_obj, "type"), PyStr(PinType)),
         imageURL |-> PyOr(ExtractPrimaryImageUrl(pin_obj), PyStr(<<>>))]

---------------------------------------------------------------------------
(* The documents of the model *)

UrlDigits == PyStr(<<"h", "t", "t", "p", ":", "/", "/", "x", "/", "5", "5", "5", "5", "/", "a", ".", "j", "p", "g">>)

UrlShort == PyStr(<<"/", "i", "/", "b">>)

UrlLong == PyStr(<<"h", "t", "t", "p", ":", "/", "/", "x", "/", "a", "b", "c", "d", "e", "f", "g", "h", "i", "j", "k", "l", "m", "n", "o", "p", "q", "r", "s", "t", "u", "v", "w", "x", "y", "z">>)

PinA ==
    PyDict(<<Item("id", PyNum(1)),
             Item("grid_title", PyStr(<<"A">>)),
             Item("images", PyDict(<<Item("orig", PyDict(<<Item("url", UrlDigits)>>))>>)),
             Item("pinner", PyDict(<<Item("id", PyNum(9)),
                                     Item("username", PyStr(<<"b", "o", "b">>)),
                                     Item("image_medium_url", UrlShort)>>)),
             Item("created_at", PyNum(86400))>>)

PinB ==
    PyDict(<<Item("id", PyNum(2)),
             Item("title", PyStr(<<"B">>)),
             Item("type", PyStr(<<"v", "i", "d", "e", "o">>)),
             Item("createdAt", PyStr(<<" ">> \o <<"2", "0", "2", "1", "-", "0", "3", "-", "0", "4">>))>>)

PinC ==
    PyDict(<<Item("id", PyStr(<<"1">>)),
             Item("title", PyStr(<<>>)),
             Item("description", PyStr(<<"C">>))>>)

PinD ==
    PyDict(<<Item("id", PyNum(3)),
             Item("images", PyDict(<<Item("236x", PyDict(<<Item("url", UrlShort)>>))>>)),
             Item("owner", PyStr(<<"x">>))>>)

PinE ==
    PyDict(<<Item("id", PyNum(4)),
             Item("title", PyStr(<<"E">>)),
             Item("board", PyDict(<<Item("id", PyNum(5)), Item("title", PyStr(<<"F">>))>>))>>)

BlobNone == PyDict(<<Item("data", PyDict(<<Item("x", PyNum(1))>>))>>)

BlobRoot == PinB

BlobRedux ==
    PyDict(<<Item("initialReduxState",
                  PyDict(<<Item("pins", PyList(<<PinA, PinB, PinD>>))>>))>>)

BlobDup == PyDict(<<Item("results", PyList(<<PinA, PinC>>))>>)

BlobNested == PyDict(<<Item("props", PinE)>>)

SampleScripts ==
    { Script("empty", FALSE, Malformed),
      Script("json", FALSE, BlobNone),
      Script("json", FALSE, BlobRoot),
      Script("json", FALSE, BlobRedux),
      Script("json", FALSE, Malformed),
      Script("assign", TRUE, BlobDup),
      Script("assign", TRUE, BlobNested),
      Script("assign", TRUE, Malformed),
      Script("assign", FALSE, BlobRoot) }

SampleDivs ==
    { Div(PyStr(<<"p", "i", "n", "-", "1", "2", "3">>), PyNone, Img(UrlDigits, PyNone, PyStr(<<"H", "e", "l", "l", "o">>))),
      Div(PyStr(<<"P", "i", "n", "C", "a", "r", "d">>), PyStr(<<"7", "7">>), Img(PyNone, UrlShort, PyNone)),
      Div(PyStr(<<"c", "a", "r", "d">>), PyStr(<<"8", "8">>), Img(UrlDigits, PyNone, PyNone)),
      Div(PyStr(PinType), PyNone, PyNone),
      Div(PyNone, PyNone, Img(UrlDigits, PyNone, PyNone)),
      Div(PyStr(PinType), PyStr(<<>>), Img(UrlLong, UrlShort, PyStr(<<>>))) }

\* the most script and div elements a document holds
MaxElems == 2

\* the documents: the script and div elements of a page, in document order
Pages == UNION {[1..n -> SampleScripts \cup SampleDivs] : n \in 0..MaxElems}

\* the documents served when several jobs run
MainPages ==
    { <<>>,
      <<Script("json", FALSE, BlobRoot)>>,
      <<Script("assign", TRUE, BlobDup)>>,
      <<Div(PyStr(PinType), PyStr(<<"7">>), Img(UrlShort, PyNone, PyNone))>> }

\* the documents a site may serve
Documents(s) == IF s = "any" THEN Pages ELSE IF s = "few" THEN MainPages ELSE {}

---------------------------------------------------------------------------
(* runner.main's job loop, search, and _request_with_retries *)

\* the most retries a configuration asks for
MaxRetries == 3

\* the largest limit of a job
MaxLimit == 2

\* the most jobs of a run
MaxJobs == 2

\* the status codes the site answers with
Statuses == {200, 204, 404, 500, 503}

\* what one session.get did: raised a transport exception, or answered
Outcome(exc, status) == [exc |-> exc, status |-> status]

Response(status) == [t |-> "response", status |-> status]

NoCalls == [locate |-> 0, find |-> 0, normalize |-> 0, fallback |-> 0]

\* a wrong retry test: client errors are retried too
IsServerErrorFrom400(status) == status >= 400

\* resp.status_code >= 500
IsServerError(status) == status >= 500

\* a wrong loop bound: range(1, max_retries + 2)
HasNextAttemptOneMore(a) == a + 1 <= max_retries + 1

\* whether range(1, max_retries + 1) holds a value after a
HasNextAttempt(a) == a + 1 <= max_retries

\* a wrong status test: only error statuses end the job
IsBadStatusFrom400(status) == status >= 400

\* resp.status_code != 200
IsBadStatus(status) == status # 200

\* a wrong break test: one record too many
ReachedLimitStrict(n, limit) == n > limit

\* len(normalized) >= limit
ReachedLimit(n, limit) == n >= limit

\* a wrong fallback return: the records are not cut
TruncateToLimitNot(records, limit) == records

\* records[:limit], for the positive limits of the jobs
TruncateToLimit(records, limit) == Take(records, limit)

\* a wrong handler: a failed job ends the loop
NextJobAfterFailureStops(i) == Len(jobs) + 1

\* the except clause of the job loop: log, then go on with the next job
NextJobAfterFailure(i) == i + 1

limit == jobs[idx].limit

fetchVars == <<attempt, log, sleeps>>

searchVars == <<resp, html, pins_raw, normalized, k, calls, result, raised>>

runnerVars == <<jobs, site, max_retries, idx, all_results, jobLog, exported>>

helperVars == <<arg, out>>

InitRun ==
    /\ max_retries \in 1..MaxRetries
    /\ idx = 1 /\ pc = "jobs"
    /\ attempt = 1 /\ log = <<>> /\ sleeps = 0
    /\ resp = PyNone /\ html = <<>> /\ pins_raw = <<>> /\ normalized = <<>>
    /\ k = 1 /\ calls = NoCalls /\ result = <<>> /\ raised = FALSE
    /\ all_results = <<>> /\ jobLog = <<>> /\ exported = <<>>
    /\ arg = PyNone /\ out = PyNone

\* one job, any document
Init ==
    /\ InitRun
    /\ jobs \in {<<[limit |-> l]>> : l \in 1..MaxLimit}
    /\ site = "any"

\* several jobs
InitMain ==
    /\ InitRun
    /\ jobs \in UNION {[1..n -> {[limit |-> l] : l \in 1..MaxLimit}] : n \in 1..MaxJobs}
    /\ site = "few"

\* main: the next job of the loop calls search, which calls _request_with_retries
StartJob ==
    /\ pc = "jobs" /\ idx <= Len(jobs)
    /\ pc' = "try"
    /\ attempt' = 1 /\ log' = <<>> /\ sleeps' = 0
    /\ resp' = PyNone /\ html' = <<>> /\ pins_raw' = <<>> /\ normalized' = <<>>
    /\ k' = 1 /\ calls' = NoCalls /\ result' = <<>> /\ raised' = FALSE
    /\ UNCHANGED <<runnerVars, helperVars>>

\* _request_with_retries: session.get answers with a status below 500; return resp
GetReturns ==
    /\ pc = "try"
    /\ \E status \in Statuses :
           /\ ~IsServerError(status)
           /\ log' = Append(log, Outcome(FALSE, status))
           /\ resp' = Response(status)
    /\ pc' = "fetched"
    /\ UNCHANGED <<attempt, sleeps, html, pins_raw, normalized, k, calls, result, raised,
                   runnerVars, helperVars>>

\* _request_with_retries: session.get raises, or answers with a server error and
\* HTTPError is raised; control enters the except clause
GetFails ==
    /\ pc = "try"
    /\ \E o \in {Outcome(TRUE, 0)} \cup {Outcome(FALSE, st) : st \in Statuses} :
           /\ o.exc \/ IsServerError(o.status)
           /\ log' = Append(log, o)
    /\ pc' = "except"
    /\ UNCHANGED <<attempt, sleeps, searchVars, runnerVars, helperVars>>

\* _request_with_retries: the except clause sleeps, then the loop goes on or,
\* after its last value, the function returns None
Backoff ==
    /\ pc = "except"
    /\ sleeps' = sleeps + 1
    /\ IF HasNextAttempt(attempt)
       THEN attempt' = attempt + 1 /\ pc' = "try"
       ELSE attempt' = attempt /\ pc' = "fetched"
    /\ UNCHANGED <<log, searchVars, runnerVars, helperVars>>

\* search: no response, or a status other than 200: return []
SearchNoData ==
    /\ pc = "fetched"
    /\ IF resp = PyNone THEN TRUE ELSE IsBadStatus(resp.status)
    /\ result' = <<>>
    /\ pc' = "returned"
    /\ attempt' = 1 /\ log' = <<>> /\ sleeps' = 0
    /\ UNCHANGED <<resp, html, pins_raw, normalized, k, calls, raised, runnerVars,
                   helperVars>>

\* search: the status is 200 and html = resp.text is read
SearchReadsDocument ==
    /\ pc = "fetched"
    /\ resp # PyNone /\ ~IsBadStatus(resp.status)
    /\ html' \in Documents(site)
    /\ pc' = "extract"
    /\ attempt' = 1 /\ log' = <<>> /\ sleeps' = 0
    /\ UNCHANGED <<resp, pins_raw, normalized, k, calls, result, raised, runnerVars,
                   helperVars>>

\* search: blobs are located and searched for records; with no record the
\* fallback's records, cut to the limit, are returned
SearchExtract ==
    /\ pc = "extract"
    /\ LET blobs == ExtractJsonBlobs(html)
           pins  == IF blobs # <<>> THEN FindPinObjects(blobs) ELSE <<>>
       IN  /\ pins_raw' = pins
           /\ calls' = [locate    |-> 1,
                        find      |-> IF blobs # <<>> THEN 1 ELSE 0,
                        normalize |-> 0,
                        fallback  |-> IF pins = <<>> THEN 1 ELSE 0]
           /\ IF pins = <<>>
              THEN /\ result' = TruncateToLimit(FallbackParse(html), limit)
                   /\ pc' = "returned"
              ELSE /\ result' = <<>>
                   /\ pc' = "normalize"
    /\ UNCHANGED <<fetchVars, resp, html, normalized, k, raised, runnerVars, helperVars>>

\* search: BeautifulSoup rejects the document at line 107 and raises; search has
\* no handler there, so the exception leaves search
SearchParserRaises ==
    /\ pc = "extract"
    /\ raised' = TRUE
    /\ calls' = [calls EXCEPT !.locate = 1]
    /\ pc' = "returned"
    /\ UNCHANGED <<fetchVars, resp, html, pins_raw, normalized, k, result, runnerVars,
                   helperVars>>

\* search: one pass of the loop over pins_raw.  _normalize_pin raises on no value
\* json.loads can produce, so the except clause of the loop is never entered.
NormalizeStep ==
    /\ pc = "normalize"
    /\ LET n == Append(normalized, NormalizePin(pins_raw[k]))
       IN  /\ normalized' = n
           /\ calls' = [calls EXCEPT !.normalize = @ + 1]
           /\ IF ReachedLimit(Len(n), limit) \/ k = Len(pins_raw)
              THEN result' = n /\ pc' = "returned" /\ k' = k
              ELSE result' = result /\ pc' = "normalize" /\ k' = k + 1
    /\ UNCHANGED <<fetchVars, resp, html, pins_raw, raised, runnerVars, helperVars>>

\* main: search returned and its records are appended, or it raised and the
\* except clause logs the failure; the loop goes on
JobEnds ==
    /\ pc = "returned"
    /\ all_results' = IF raised THEN all_results ELSE all_results \o result
    /\ jobLog' = Append(jobLog, [job |-> idx, raised |-> raised, records |-> result])
    /\ idx' = IF raised THEN NextJobAfterFailure(idx) ELSE idx + 1
    /\ pc' = "jobs"
    /\ resp' = PyNone /\ html' = <<>> /\ pins_raw' = <<>> /\ normalized' = <<>>
    /\ k' = 1 /\ calls' = NoCalls /\ result' = <<>> /\ raised' = FALSE
    /\ UNCHANGED <<fetchVars, jobs, site, max_retries, exported, helperVars>>

\* main: after the loop, exporter.export is called with all_results
Export ==
    /\ pc = "jobs" /\ idx > Len(jobs)
    /\ exported' = Append(exported, all_results)
    /\ pc' = "done"
    /\ UNCHANGED <<fetchVars, searchVars, jobs, site, max_retries, idx, all_results,
                   jobLog, helperVars>>

Next ==
    \/ StartJob
    \/ GetReturns
    \/ GetFails
    \/ Backoff
    \/ SearchNoData
    \/ SearchReadsDocument
    \/ SearchExtract
    \/ SearchParserRaises
    \/ NormalizeStep
    \/ JobEnds
    \/ Export

Spec == Init /\ [][Next]_vars

SpecMain == InitMain /\ [][Next]_vars

---------------------------------------------------------------------------
(* Properties of _request_with_retries *)

\* a GET that failed: a transport exception, or a status of 500 or more
FailedGet(o) == o.exc \/ o.status >= 500

\* C1: when every attempt of one fetch fails, exactly max_retries GETs were made
\* when the fetch ends, it returns None, and nothing was raised to the caller;
\* no fetch ever makes more than max_retries GETs
C1_ExhaustionReturnsNone ==
    /\ Len(log) <= max_retries
    /\ (pc = "fetched" /\ \A i \in 1..Len(log) : FailedGet(log[i])) =>
           /\ Len(log) = max_retries
           /\ resp = PyNone
           /\ ~raised

\* C1 witness: a fetch configured for three attempts ended after three failures,
\* a transport exception and a server error among them
C1_Witness ==
    /\ pc = "fetched" /\ max_retries = 3 /\ Len(log) = 3 /\ resp = PyNone
    /\ \A i \in 1..3 : FailedGet(log[i])
    /\ \E i, j \in 1..3 : log[i].exc /\ ~log[j].exc

\* C2: a GET answered with a status below 500 is the last GET of its fetch: the
\* fetch has ended, it returns that response, and the only waits were those after
\* the failed attempts before it
C2_NonRetryableEndsFetch ==
    \A i \in 1..Len(log) :
        ~FailedGet(log[i]) =>
            /\ i = Len(log)
            /\ pc = "fetched"
            /\ resp = Response(log[i].status)
            /\ sleeps = i - 1

\* C2 witness: a 404 came on the second attempt and ended the fetch
C2_Witness ==
    /\ pc = "fetched" /\ Len(log) = 2 /\ max_retries >= 3
    /\ FailedGet(log[1]) /\ log[2] = Outcome(FALSE, 404)
    /\ resp = Response(404) /\ sleeps = 1

---------------------------------------------------------------------------
(* Properties of search *)

\* C3: a job whose fetch gave no response, or a response whose status is not 200,
\* ends with an empty list, without raising and without any of blob location,
\* record finding, normalization or fallback extraction having run
C3_NoDataEndsJobEmpty ==
    (pc \in {"extract", "normalize", "returned"}
         /\ (IF resp = PyNone THEN TRUE ELSE resp.status # 200)) =>
        /\ pc = "returned"
        /\ result = <<>>
        /\ ~raised
        /\ calls = NoCalls

\* C3 witness: a job ended empty on a 204 answer
C3_Witness ==
    /\ pc = "returned" /\ resp = Response(204) /\ result = <<>> /\ ~raised
    /\ calls = NoCalls

\* C4: with more candidates than the limit, search returns exactly limit records,
\* the normalizations of the first limit candidates in their order, and no other
\* candidate is normalized
C4_TruncatesAtLimit ==
    /\ (pc \in {"normalize", "returned"} /\ Len(pins_raw) > limit) =>
           calls.normalize <= limit
    /\ (pc = "returned" /\ ~raised /\ Len(pins_raw) > limit) =>
           /\ Len(result) = limit
           /\ \A i \in 1..limit : result[i] = NormalizePin(pins_raw[i])
           /\ calls.normalize = limit

\* C4 witness: three or more candidates, a limit of two, two records returned
C4_Witness ==
    /\ pc = "returned" /\ limit = 2 /\ Len(pins_raw) >= 3 /\ Len(result) = 2
    /\ result[1] # result[2]

\* the divs of a document the fallback makes records of
PinDivs(page) ==
    {i \in 1..Len(page) :
        /\ page[i].el = "div"
        /\ page[i].img # PyNone
        /\ page[i].testid # PyNone
        /\ Contains(Lower(page[i].testid.s), PinType)}

\* C5: with no candidate (no blob at all included), search returns the fallback
\* extractor's records in document order, cut to the limit: as many as the smaller
\* of their number and the limit
C5_FallbackTruncated ==
    (pc = "returned" /\ ~raised /\ calls.locate = 1 /\ pins_raw = <<>>) =>
        LET records == FallbackParse(html)
        IN  /\ calls.fallback = 1 /\ calls.normalize = 0
            /\ Len(records) = Cardinality(PinDivs(html))
            /\ Len(result) = Min(Len(records), limit)
            /\ \A i \in 1..Len(result) : result[i] = records[i]

\* C5 witness: no blob was located, the fallback found two records, the limit is one
C5_Witness ==
    /\ pc = "returned" /\ ~raised /\ calls.locate = 1 /\ calls.find = 0
    /\ Len(FallbackParse(html)) = 2 /\ limit = 1 /\ Len(result) = 1
    /\ FallbackParse(html)[1] # FallbackParse(html)[2]

\* C6: no two records of the list one search returns have the same id
C6_UniqueIds ==
    pc = "returned" =>
        \A i, j \in 1..Len(result) : i # j => result[i].id # result[j].id

CreatorFields == {"id", "username", "fullName", "avatarURL", "followers"}

---------------------------------------------------------------------------
(* Properties of main *)

\* the records of the jobs that returned, in the order the jobs ended
RECURSIVE Collected(_)
Collected(entries) ==
    IF entries = <<>> THEN <<>>
    ELSE (IF Head(entries).raised THEN <<>> ELSE Head(entries).records)
             \o Collected(Tail(entries))

\* C8: a job whose search raises does not stop the run: the jobs are run one
\* after the other in order, all of them, the records of those that returned are
\* accumulated in job order, and export is called once, after the last job, with
\* the accumulated list
C8_FailedJobDoesNotStopRun ==
    /\ \A i \in 1..Len(jobLog) : jobLog[i].job = i
    /\ all_results = Collected(jobLog)
    /\ pc # "done" => exported = <<>> /\ Len(jobLog) = idx - 1
    /\ pc = "done" => Len(jobLog) = Len(jobs) /\ exported = <<all_results>>

\* C8 witness: the first job returned records, the second raised, the third
\* returned records, and the run exported the records of the first and the third
C8_Witness ==
    /\ pc = "done" /\ Len(jobLog) >= 2
    /\ \E i, j \in 1..Len(jobLog) :
           /\ i < j
           /\ jobLog[i].raised
           /\ ~jobLog[j].raised /\ jobLog[j].records # <<>>
    /\ exported = <<all_results>> /\ all_results # <<>>

---------------------------------------------------------------------------
(* The record normalizer applied on its own *)

\* the keys _normalize_pin reads the title from, in the order it reads them
TitleKeys == <<"grid_title", "title", "description">>

\* what a title key may hold besides being absent: null, the empty string, a
\* text naming its key, zero, a number, an empty list
TitleValues(key) ==
    {PyNone, PyStr(<<>>), PyStr(<<key>>), PyNum(0), PyNum(7), PyList(<<>>)}

\* the ways a candidate holds, or does not hold, one key
OneKey(key, values) == {<<>>} \cup {<<Item(key, v)>> : v \in values}

UrlOrig == PyStr(<<"/", "o">>)

\* what the images key may hold
ImageValues ==
    { PyNone,
      PyStr(<<"x">>),
      PyDict(<<>>),
      PyDict(<<Item("orig", PyDict(<<Item("url", UrlOrig)>>))>>),
      PyDict(<<Item("orig", PyDict(<<Item("width", PyNum(9))>>))>>),
      PyDict(<<Item("orig", PyDict(<<Item("width", PyNum(9))>>)),
               Item("236x", PyDict(<<Item("url", UrlShort)>>))>>),
      PyDict(<<Item("236x", PyDict(<<Item("url", UrlShort)>>)),
               Item("orig", PyDict(<<Item("url", UrlOrig)>>))>>),
      PyDict(<<Item("236x", PyDict(<<Item("url", UrlShort)>>)),
               Item("orig", PyDict(<<>>))>>),
      PyDict(<<Item("orig", PyStr(<<"x">>)),
               Item("236x", PyDict(<<Item("url", UrlShort)>>))>>),
      PyDict(<<Item("236x", PyDict(<<Item("width", PyNum(9))>>)),
               Item("474x", PyDict(<<Item("url", UrlDigits)>>)),
               Item("736x", PyDict(<<Item("url", UrlShort)>>))>>),
      PyDict(<<Item("236x", PyStr(<<"x">>)),
               Item("474x", PyDict(<<Item("url", UrlDigits)>>))>>),
      PyDict(<<Item("236x", PyDict(<<>>)), Item("474x", PyNone)>>) }

\* the candidates handed to _normalize_pin
Candidates ==
    { PyDict(<<Item("id", PyNum(1))>> \o g \o t \o d \o i) :
        g \in OneKey("grid_title", TitleValues("G")),
        t \in OneKey("title", TitleValues("T")),
        d \in OneKey("description", TitleValues("D")),
        i \in OneKey("images", ImageValues) }

InitNormalize ==
    /\ IdleScraper
    /\ pc = "normalize_call"
    /\ arg \in Candidates
    /\ out = PyNone

ApplyNormalize ==
    /\ pc = "normalize_call"
    /\ out' = NormalizePin(arg)
    /\ pc' = "normalize_done"
    /\ UNCHANGED <<scraperVars, arg>>

NextNormalize == ApplyNormalize

SpecNormalize == InitNormalize /\ [][NextNormalize]_vars

\* the values Python's 'or' passes over
Falsy == {PyNone, PyStr(<<>>), PyNum(0), PyList(<<>>), PyDict(<<>>)}

\* the first title key, in reading order, whose value is not in skipped; 0 when
\* there is none
FirstTitleKey(pin_obj, skipped) ==
    LET hits == {i \in 1..Len(TitleKeys) :
                    HasKey(pin_obj, TitleKeys[i]) /\ At(pin_obj, TitleKeys[i]) \notin skipped}
    IN  IF hits = {} THEN 0 ELSE CHOOSE i \in hits : \A j \in hits : i <= j

\* the title that reading the keys in order gives when the values in skipped
\* are passed over
TitleSkipping(pin_obj, skipped) ==
    IF FirstTitleKey(pin_obj, skipped) = 0 THEN PyStr(<<>>)
    ELSE At(pin_obj, TitleKeys[FirstTitleKey(pin_obj, skipped)])

\* C11 as claimed: the title is the value of the first of grid_title, title,
\* description that is present and not null, and the empty string when none is
C11_TitleFirstNonNull ==
    pc = "normalize_done" => out.title = TitleSkipping(arg, {PyNone})

\* C11 as amended: the title is the value of the first of grid_title, title,
\* description whose value is truthy (not null, not zero, not an empty string or
\* container), and the empty string when none is; a grid_title that is a
\* non-empty text is the title whatever title and description hold
C11_TitleFirstTruthy ==
    pc = "normalize_done" =>
        /\ out.title = TitleSkipping(arg, Falsy)
        /\ Get(arg, "grid_title") = PyStr(<<"G">>) => out.title = PyStr(<<"G">>)

\* C11 witness: an empty grid_title gave way to the title, although the
\* description is set too
C11_Witness ==
    /\ pc = "normalize_done"
    /\ Get(arg, "grid_title") = PyStr(<<>>)
    /\ Get(arg, "title") = PyStr(<<"T">>)
    /\ Get(arg, "description") = PyStr(<<"D">>)
    /\ out.title = PyStr(<<"T">>)

\* the positions of the entries of an images mapping that have a url
EntriesWithUrl(images) ==
    {i \in 1..Len(images.items) :
        IsDict(images.items[i].v) /\ HasKey(images.items[i].v, "url")}

\* C12: when images is a mapping, the image URL is the url of the orig entry when
\* orig has one, otherwise the url of the first entry in iteration order that
\* has one, and it is empty only when no entry of the mapping has a url
C12_ImageFromOrigOrFirst ==
    (pc = "normalize_done" /\ IsDict(Get(arg, "images"))) =>
        LET images == Get(arg, "images")
            hits   == EntriesWithUrl(images)
            first  == CHOOSE i \in hits : \A j \in hits : i <= j
        IN  IF \E i \in hits : images.items[i].k = "orig"
            THEN out.imageURL = At(At(images, "orig"), "url")
            ELSE IF hits # {}
            THEN out.imageURL = At(images.items[first].v, "url")
            ELSE out.imageURL = PyStr(<<>>)

---------------------------------------------------------------------------
(* Properties of the backoff and of the locator *)

\* C13: every backoff wait of a fetch is followed by another attempt: when the
\* fetch ends, the waits are as many as the failed attempts that another attempt
\* followed, so a fetch that ends in failure waited once less than it failed and
\* did not wait after its last failed attempt
C13_NoWaitAfterLastFailure ==
    pc = "fetched" =>
        sleeps = Cardinality({i \in 1..(Len(log) - 1) : FailedGet(log[i])})

\* the documents handed to the locator on its own: script elements only
ScriptPages == UNION {[1..n -> SampleScripts] : n \in 0..MaxElems}

InitLocator ==
    /\ IdleScraper
    /\ pc = "locator_call"
    /\ arg \in ScriptPages
    /\ out = PyNone

\* _extract_json_blobs_from_html, and _find_pin_objects on what it returned
ApplyLocator ==
    /\ pc = "locator_call"
    /\ LET blobs == ExtractJsonBlobs(arg)
       IN  out' = [blobs |-> blobs, pins |-> FindPinObjects(blobs)]
    /\ pc' = "locator_done"
    /\ UNCHANGED <<scraperVars, arg>>

NextLocator == ApplyLocator

SpecLocator == InitLocator /\ [][NextLocator]_vars

\* how often a tree occurs among the blobs
Occurrences(blobs, tree) == Cardinality({i \in 1..Len(blobs) : blobs[i] = tree})

\* the number of record-like nodes in the parsed texts of a document's scripts
RECURSIVE RecordsOfScripts(_)
RecordsOfScripts(page) ==
    IF page = <<>> THEN 0
    ELSE (IF Head(page).body = Malformed THEN 0
          ELSE Cardinality(RecordPaths(Head(page).body)))
             + RecordsOfScripts(Tail(page))

\* C14: the locator adds at most one blob per script element, also for a script
\* whose text holds a marker and is a complete JSON object when trimmed: no more
\* blobs than scripts, no tree more often than scripts hold it, and the records
\* of a script are found once
C14_OneBlobPerScript ==
    pc = "locator_done" =>
        /\ Len(out.blobs) <= Len(arg)
        /\ \A i \in 1..Len(arg) :
               Occurrences(out.blobs, arg[i].body)
                   <= Cardinality({j \in 1..Len(arg) : arg[j].body = arg[i].body})
        /\ Len(out.pins) <= RecordsOfScripts(arg)

===========================================================================
